---- MODULE Spec2Model ----
(***************************************************************************)
(* Model of the Readwise Reader client (src/src/readwise-client.ts) and    *)
(* of the document handlers (src/src/handlers/document-handlers.ts).       *)
(*                                                                         *)
(* Three specifications share the variables of this module:                *)
(*   SpecRequest  one ReadwiseClient.makeRequest call against a server     *)
(*                that answers each attempt with any response;             *)
(*   SpecList     handleListDocuments / searchDocumentsByTopic on top of   *)
(*                ReadwiseClient.listDocuments against a paging server;    *)
(*   SpecBulk     handleBulkDelete, each deletion being a makeRequest call *)
(*                of its own.                                              *)
(***************************************************************************)
EXTENDS Integers, Sequences, FiniteSets, TLC

VARIABLES
    retryConfig,   \* ReadwiseClient.retryConfig
    call,          \* the makeRequest call of SpecRequest
    ids,           \* handleBulkDelete: args.ids
    bpc,           \* handleBulkDelete: "idle", "running" (awaiting a batch), "done"
    bi,            \* handleBulkDelete: the loop variable i
    del,           \* handleBulkDelete: per position of ids, the deleteDocument call
    results,       \* handleBulkDelete: the results array
    bulkReturn,    \* handleBulkDelete: what the handler returned
    remote,        \* the documents of the remote service, in its order
    args,          \* handleListDocuments: args as the caller passed them
    params,        \* handleListDocuments: params (args, as the handler changes it)
    searchTerms,   \* searchDocumentsByTopic: searchTerms
    hpc,           \* the list or search call: "idle", "loop", "single", "plain",
                   \* "search" (awaiting listDocuments), "hydrate", "done", "thrown"
    allDocuments,  \* the accumulator of the pagination loop
    nextPageCursor,\* the cursor variable of the pagination loop
    response,      \* handleListDocuments: response
    lst,           \* the listDocuments call in progress
    requests,      \* the list requests sent to the remote, in order (history)
    calls,         \* the listDocuments calls that returned: params, response (history)
    path,          \* which branch the call took: "loop", "single", "plain", "search"
    hyd,           \* per document of response.data.results: its hydration
    output         \* what the list or search call returned or threw

(***************************************************************************)
(* Bounds of the model.                                                    *)
(***************************************************************************)
MaxRetriesBound == 3

MaxIds == 6

MaxVaried == 2

MaxCount == 21

ServerPageSize == 2

(***************************************************************************)
(* JavaScript numbers: an integer or NaN.                                  *)
(***************************************************************************)
Num(n) == [nan |-> FALSE, v |-> n]

NaN == [nan |-> TRUE, v |-> 0]

\* Math.min(a, b): NaN when either argument is NaN
MathMin(a, b) ==
    IF a.nan \/ b.nan THEN NaN ELSE IF a.v <= b.v THEN a ELSE b

\* Math.max(a, b): NaN when either argument is NaN
MathMax(a, b) ==
    IF a.nan \/ b.nan THEN NaN ELSE IF a.v >= b.v THEN a ELSE b

\* a * b on JavaScript numbers
Times(a, b) == IF a.nan \/ b.nan THEN NaN ELSE Num(a.v * b.v)

Min(a, b) == IF a <= b THEN a ELSE b

\* Math.pow(2, n) for an integer n >= 0
RECURSIVE Pow2(_)
Pow2(n) == IF n <= 0 THEN 1 ELSE 2 * Pow2(n - 1)

Digits == <<"0", "1", "2", "3", "4", "5", "6", "7", "8", "9">>

IsDigit(c) == \E i \in 1..Len(Digits) : Digits[i] = c

DigitVal(c) == (CHOOSE i \in 1..Len(Digits) : Digits[i] = c) - 1

\* the value of the longest prefix of digits of s, after acc
RECURSIVE ParseDigits(_, _)
ParseDigits(s, acc) ==
    IF s = <<>> \/ ~IsDigit(Head(s)) THEN acc
    ELSE ParseDigits(Tail(s), 10 * acc + DigitVal(Head(s)))

\* parseInt(s, 10) of a string given as its sequence of characters: leading
\* blanks are skipped, a sign is read, then the longest prefix of digits;
\* NaN when there is no digit.
RECURSIVE ParseInt(_)
ParseInt(s) ==
    IF s = <<>> THEN NaN
    ELSE IF Head(s) = " " THEN ParseInt(Tail(s))
    ELSE IF Head(s) = "-"
         THEN IF Tail(s) = <<>> \/ ~IsDigit(Head(Tail(s))) THEN NaN
              ELSE Num(0 - ParseDigits(Tail(s), 0))
    ELSE IF ~IsDigit(Head(s)) THEN NaN
    ELSE Num(ParseDigits(s, 0))

\* the delay a timer runs for: setTimeout(resolve, ms) of sleep(ms)
\* runs for 1 ms when ms is NaN or below 1
SleepDuration(ms) == IF ms.nan \/ ms.v < 1 THEN 1 ELSE ms.v

(***************************************************************************)
(* HTTP responses, as makeRequest reads them.                              *)
(***************************************************************************)
NoHeader == [present |-> FALSE, text |-> <<>>]

Header(chars) == [present |-> TRUE, text |-> chars]

Response(status, statusText, retryAfter, body) ==
    [status |-> status, statusText |-> statusText,
     retryAfter |-> retryAfter, body |-> body]

\* response.ok
Ok(resp) == resp.status >= 200 /\ resp.status <= 299

(***************************************************************************)
(* ReadwiseClient.makeRequest as a machine over the record of one call:    *)
(*   pc       "fetch" (at the top of the loop body), "inflight" (awaiting  *)
(*            fetch), "sleep" (awaiting this.sleep), "returned", "thrown"  *)
(*   attempt  the loop variable                                            *)
(*   requests the number of fetch calls issued so far                      *)
(*   waits    the durations slept so far, in order                         *)
(*   warnings the number of console.warn diagnostics emitted               *)
(*   sleepMs  the argument of the pending this.sleep                       *)
(*   lastError, result  the local lastError and the outcome of the call    *)
(*   seen     the responses received so far, in order (history)            *)
(***************************************************************************)
NoError == [kind |-> "none", status |-> 0, statusText |-> "", body |-> "",
            retries |-> 0, retryAfterSeconds |-> Num(0)]

\* new Error(`Rate limit exceeded after ${maxRetries} retries. Please wait
\* ${retryAfterSeconds} seconds before trying again.`)
RateLimitError(cfg, retryAfterSeconds) ==
    [kind |-> "RateLimitExceeded", status |-> 0, statusText |-> "", body |-> "",
     retries |-> cfg.maxRetries, retryAfterSeconds |-> retryAfterSeconds]

\* new Error(`Readwise API error: ${status} ${statusText} - ${errorText}`)
ApiError(resp) ==
    [kind |-> "ApiError", status |-> resp.status, statusText |-> resp.statusText,
     body |-> resp.body, retries |-> 0, retryAfterSeconds |-> Num(0)]

\* new Error('Request failed')
RequestFailed ==
    [kind |-> "RequestFailed", status |-> 0, statusText |-> "", body |-> "",
     retries |-> 0, retryAfterSeconds |-> Num(0)]

NoResult == [kind |-> "pending", payload |-> "", error |-> NoError]

\* throw lastError || new Error('Request failed')
Thrown(lastError) ==
    [kind |-> "thrown", payload |-> "",
     error |-> IF lastError.kind = "none" THEN RequestFailed ELSE lastError]

\* the loop test attempt <= maxRetries, and the throw after the loop
LoopTest(c, cfg) ==
    IF c.attempt <= cfg.maxRetries
    THEN [c EXCEPT !.pc = "fetch"]
    ELSE [c EXCEPT !.pc = "thrown", !.result = Thrown(c.lastError)]

\* entry of makeRequest: lastError = null, attempt = 0, first loop test
MRStart(cfg) ==
    LoopTest([pc |-> "fetch", attempt |-> 0, requests |-> 0, waits |-> <<>>,
              warnings |-> 0, sleepMs |-> Num(0), lastError |-> NoError,
              result |-> NoResult, seen |-> <<>>], cfg)

\* const response = await fetch(url, ...): the request goes out
MRIssue(c) == [c EXCEPT !.pc = "inflight", !.requests = @ + 1]

\* faulty variant: a 429 without the header counts as 30 seconds
RetryAfterSeconds_DefaultThirty(resp) ==
    IF resp.retryAfter.present /\ resp.retryAfter.text # <<>>
    THEN ParseInt(resp.retryAfter.text)
    ELSE Num(30)

\* retryAfter ? parseInt(retryAfter, 10) : 60
RetryAfterSeconds(resp) ==
    IF resp.retryAfter.present /\ resp.retryAfter.text # <<>>
    THEN ParseInt(resp.retryAfter.text)
    ELSE Num(60)

\* Math.min(baseDelayMs * Math.pow(2, attempt), maxDelayMs)
ExponentialDelay(cfg, attempt) ==
    MathMin(Num(cfg.baseDelayMs * Pow2(attempt)), Num(cfg.maxDelayMs))

\* faulty variant: the server's Retry-After is not clamped to maxDelayMs
DelayMs_Unclamped(cfg, resp) == Times(RetryAfterSeconds(resp), Num(1000))

\* Math.min(retryAfterSeconds * 1000, maxDelayMs)
DelayMs(cfg, resp) ==
    MathMin(Times(RetryAfterSeconds(resp), Num(1000)), Num(cfg.maxDelayMs))

\* faulty variant: the Retry-After header is ignored, backoff only
ActualDelay_BackoffOnly(cfg, attempt, resp) == ExponentialDelay(cfg, attempt)

\* Math.max(delayMs, exponentialDelay)
ActualDelay(cfg, attempt, resp) ==
    MathMax(DelayMs(cfg, resp), ExponentialDelay(cfg, attempt))

\* a 2xx response: undefined for 204, else response.json()
MROk(c, resp) ==
    [c EXCEPT !.pc = "returned",
              !.result = IF resp.status = 204
                         THEN [kind |-> "void", payload |-> "", error |-> NoError]
                         ELSE [kind |-> "payload", payload |-> resp.body,
                               error |-> NoError]]

\* faulty variant: the retry test is attempt <= maxRetries, one retry too many
MRRateLimited_OffByOne(c, cfg, resp) ==
    IF c.attempt <= cfg.maxRetries
    THEN [c EXCEPT !.pc = "sleep", !.warnings = @ + 1,
                   !.sleepMs = ActualDelay(cfg, c.attempt, resp)]
    ELSE LoopTest([c EXCEPT !.attempt = @ + 1,
                            !.lastError = RateLimitError(cfg, RetryAfterSeconds(resp))],
                  cfg)

\* faulty variant: the wait is started without the console.warn diagnostic
MRRateLimited_Silent(c, cfg, resp) ==
    IF c.attempt < cfg.maxRetries
    THEN [c EXCEPT !.pc = "sleep", !.sleepMs = ActualDelay(cfg, c.attempt, resp)]
    ELSE LoopTest([c EXCEPT !.attempt = @ + 1,
                            !.lastError = RateLimitError(cfg, RetryAfterSeconds(resp))],
                  cfg)

\* a 429 response: warn and sleep while attempt < maxRetries, else set
\* lastError, fall to the loop increment and test
MRRateLimited(c, cfg, resp) ==
    IF c.attempt < cfg.maxRetries
    THEN [c EXCEPT !.pc = "sleep", !.warnings = @ + 1,
                   !.sleepMs = ActualDelay(cfg, c.attempt, resp)]
    ELSE LoopTest([c EXCEPT !.attempt = @ + 1,
                            !.lastError = RateLimitError(cfg, RetryAfterSeconds(resp))],
                  cfg)

\* faulty variant: continue instead of break, the error is retried
MRApiError_Retried(c, resp) ==
    [c EXCEPT !.pc = "fetch", !.attempt = @ + 1, !.lastError = ApiError(resp)]

\* any other status: lastError = API error; break; throw
MRApiError(c, resp) ==
    [c EXCEPT !.pc = "thrown", !.lastError = ApiError(resp),
              !.result = Thrown(ApiError(resp))]

\* the response of the pending fetch arrives
MRDispatch(c, cfg, resp) ==
    IF Ok(resp) THEN MROk(c, resp)
    ELSE IF resp.status = 429 THEN MRRateLimited(c, cfg, resp)
    ELSE MRApiError(c, resp)

MRReceive(c, cfg, resp) ==
    MRDispatch([c EXCEPT !.seen = Append(@, resp)], cfg, resp)

\* await this.sleep(actualDelay) ends; continue: attempt++ and loop test
MRWake(c, cfg) ==
    LoopTest([c EXCEPT !.attempt = @ + 1,
                       !.waits = Append(@, SleepDuration(c.sleepMs))], cfg)

\* the call has returned or thrown
MRSettled(c) == c.pc \in {"returned", "thrown"}

(***************************************************************************)
(* Optional values: undefined, or a value v as <<v>>.                      *)
(***************************************************************************)
Undefined == <<>>

Some(v) == <<v>>

\* JavaScript truthiness of an optional boolean, string and number or cursor
TruthyBool(x) == x = Some(TRUE)

TruthyStr(x) == x # Undefined /\ x[1] # ""

TruthyNum(x) == x # Undefined /\ x[1] # 0

(***************************************************************************)
(* Dates.  new Date(s) of the date strings of the model: a time in days,   *)
(* or an invalid date (NaN) for a string that is no date.                  *)
(***************************************************************************)
NewDate(s) ==
    CASE s = "2024-01-01" -> Num(1)
      [] s = "2024-01-02" -> Num(2)
      [] s = "2024-01-02T00:00:00.000Z" -> Num(2)
      [] s = "2024-01-03" -> Num(3)
      [] OTHER -> NaN

\* faulty variant: the comparison is not strict
DateGreater_OrEqual(a, b) == ~a.nan /\ ~b.nan /\ a.v >= b.v

\* a > b on dates: false when either is invalid
DateGreater(a, b) == ~a.nan /\ ~b.nan /\ a.v > b.v

(***************************************************************************)
(* The remote service: its documents, and GET /list/?<query>.  A cursor is *)
(* the number of documents before the page it names.                       *)
(***************************************************************************)
\* the content fields of a document, by id: inline markup (absent, empty or
\* present), category, source_url and url
DocShapes ==
    <<[html_content |-> Some("<p>markup</p>"), category |-> Some("article"),
       source_url |-> Undefined, url |-> Some("https://example.org/a")],
      [html_content |-> Some("<p>markup</p>"), category |-> Some("email"),
       source_url |-> Some("https://source.example/b"),
       url |-> Some("https://example.org/b")],
      [html_content |-> Undefined, category |-> Some("email"),
       source_url |-> Some("https://source.example/c"),
       url |-> Some("https://example.org/c")],
      [html_content |-> Some("<p>markup</p>"), category |-> Undefined,
       source_url |-> Some("https://source.example/d"),
       url |-> Some("https://example.org/d")],
      [html_content |-> Some("<p>markup</p>"), category |-> Some("pdf"),
       source_url |-> Undefined, url |-> Some("")],
      [html_content |-> Some(""), category |-> Some("tweet"),
       source_url |-> Some(""), url |-> Some("https://example.org/f")],
      [html_content |-> Undefined, category |-> Some("article"),
       source_url |-> Undefined, url |-> Undefined],
      [html_content |-> Some("<p>markup</p>"), category |-> Some(""),
       source_url |-> Undefined, url |-> Some("https://example.org/h")]>>

Document(id, savedAt) ==
    LET shape == DocShapes[(id % Len(DocShapes)) + 1]
    IN  [id |-> id, saved_at |-> savedAt, html_content |-> shape.html_content,
         category |-> shape.category, source_url |-> shape.source_url,
         url |-> shape.url,
         title |-> IF id % 3 = 0 THEN Undefined
                   ELSE IF id % 3 = 1 THEN Some("Rust notes") ELSE Some("AI weekly")]

\* the document as the remote returns it: html_content only on request
Served(d, q) ==
    IF q.withHtmlContent = Some(TRUE) THEN d ELSE [d EXCEPT !.html_content = Undefined]

\* the page the remote answers a list query with: the total match count, the
\* documents of the page, and the cursor of the next page when there is one
ServerList(docs, pageSize, q) ==
    LET start == IF q.pageCursor = Undefined THEN 0 ELSE q.pageCursor[1]
        size  == IF q.limit = Undefined THEN pageSize ELSE q.limit[1]
        stop  == Min(start + size, Len(docs))
    IN  [count |-> Len(docs),
         nextPageCursor |-> IF stop < Len(docs) THEN Some(stop) ELSE Undefined,
         results |-> [k \in 1..(IF stop > start THEN stop - start ELSE 0) |->
                         Served(docs[start + k], q)]]

(***************************************************************************)
(* ReadwiseClient.listDocuments as a machine over the record of one call:  *)
(*   pc      "count", "limited", "full": the request being awaited         *)
(*   params  the argument of the call                                      *)
(*   query   the parameters of the request being awaited                   *)
(*   count   countResponse.count, once known                               *)
(***************************************************************************)
\* createInfoMessage / createErrorMessage of the count guard: the kind, and
\* the numbers the content names
GuardMessage(count) ==
    IF count <= 20
    THEN [type |-> "info", about |-> "limited", found |-> count,
          remaining |-> count - 5]
    ELSE [type |-> "error", about |-> "unsupported", found |-> count, remaining |-> 0]

\* countParams: params without withFullContent and withHtmlContent
CountParams(p) ==
    [p EXCEPT !.withFullContent = Undefined, !.withHtmlContent = Undefined]

\* faulty variant: a limit of the caller is kept, 5 is only the default
LimitedParams_CallerLimitKept(p) ==
    IF p.limit = Undefined THEN [p EXCEPT !.limit = Some(5)] ELSE p

\* limitedParams: { ...params, limit: 5 }
LimitedParams(p) == [p EXCEPT !.limit = Some(5)]

IdleList == [pc |-> "idle", params |-> <<>>, query |-> <<>>, count |-> 0]

\* entry of listDocuments up to its first await: the count request when
\* withFullContent is truthy, else the request of params
LDStart(p) ==
    IF TruthyBool(p.withFullContent)
    THEN [pc |-> "count", params |-> p, query |-> CountParams(p), count |-> 0]
    ELSE [pc |-> "full", params |-> p, query |-> p, count |-> 0]

\* faulty variant: the guard limits the results from a count of 5 on
LDCounted_FromFive(l, page) ==
    IF page.count >= 5
    THEN [l EXCEPT !.pc = "limited", !.query = LimitedParams(l.params),
                   !.count = page.count]
    ELSE [l EXCEPT !.pc = "full", !.query = l.params, !.count = page.count]

\* the count response arrives: the limited request when count > 5, else the
\* request of params
LDCounted(l, page) ==
    IF page.count > 5
    THEN [l EXCEPT !.pc = "limited", !.query = LimitedParams(l.params),
                   !.count = page.count]
    ELSE [l EXCEPT !.pc = "full", !.query = l.params, !.count = page.count]

\* the APIResponse listDocuments returns when its last request is answered
\* (messages undefined is the empty sequence)
LDReturn(l, page) ==
    IF l.pc = "limited"
    THEN [data |-> page, messages |-> <<GuardMessage(l.count)>>]
    ELSE [data |-> page, messages |-> <<>>]

(***************************************************************************)
(* SpecRequest: one makeRequest call.  The retry configuration is any of   *)
(* RetryConfigs and the server answers every attempt with any response of  *)
(* Responses.                                                              *)
(***************************************************************************)
BaseDelays == {500, 1000}

MaxDelays == {2000, 60000, 120000}

RetryConfigs ==
    [maxRetries : 0..MaxRetriesBound, baseDelayMs : BaseDelays,
     maxDelayMs : MaxDelays]

\* Retry-After header values: absent, empty, seconds, and an HTTP date
RetryAfterHeaders ==
    {NoHeader, Header(<<>>), Header(<<"0">>), Header(<<"1">>),
     Header(<<"1", "2", "0">>), Header(<<"W", "e", "d">>)}

Responses ==
    {Response(200, "OK", NoHeader, "payload"),
     Response(204, "No Content", NoHeader, ""),
     Response(404, "Not Found", NoHeader, "no such document"),
     Response(500, "Internal Server Error", NoHeader, "server error")}
    \cup {Response(429, "Too Many Requests", h, "throttled") : h \in RetryAfterHeaders}

requestVars == <<retryConfig, call>>

bulkVars == <<ids, bpc, bi, del, results, bulkReturn>>

listVars ==
    <<remote, args, params, searchTerms, hpc, allDocuments, nextPageCursor,
      response, lst, requests, calls, path, hyd, output>>

vars == <<requestVars, bulkVars, listVars>>

\* a makeRequest call that has not been made
IdleCall ==
    [pc |-> "idle", attempt |-> 0, requests |-> 0, waits |-> <<>>,
     warnings |-> 0, sleepMs |-> Num(0), lastError |-> NoError,
     result |-> NoResult, seen |-> <<>>]

NoBulkReturn == [kind |-> "pending", successful |-> 0, total |-> 0, failed |-> <<>>]

\* handleBulkDelete is not in use
BulkUnused ==
    /\ ids = <<>>
    /\ bpc = "unused"
    /\ bi = 0
    /\ del = <<>>
    /\ results = <<>>
    /\ bulkReturn = NoBulkReturn

NoParams ==
    [withFullContent |-> Undefined, withHtmlContent |-> Undefined,
     addedAfter |-> Undefined, pageCursor |-> Undefined, limit |-> Undefined]

NoPage == [count |-> 0, nextPageCursor |-> Undefined, results |-> <<>>]

NoResponse == [data |-> NoPage, messages |-> <<>>]

NoOutput ==
    [kind |-> "pending", count |-> 0, nextPageCursor |-> Undefined,
     documents |-> <<>>, messages |-> <<>>, error |-> "none"]

\* the state of a list or search call before it is made
ListIdle ==
    /\ args = NoParams
    /\ params = NoParams
    /\ searchTerms = <<>>
    /\ allDocuments = <<>>
    /\ nextPageCursor = Undefined
    /\ response = NoResponse
    /\ lst = IdleList
    /\ requests = <<>>
    /\ calls = <<>>
    /\ path = "none"
    /\ hyd = <<>>
    /\ output = NoOutput

\* the list handlers are not in use
ListUnused ==
    /\ remote = <<>>
    /\ hpc = "unused"
    /\ ListIdle

InitRequest ==
    /\ retryConfig \in RetryConfigs
    /\ call = MRStart(retryConfig)
    /\ BulkUnused
    /\ ListUnused

\* the call issues its next fetch
Fetch ==
    /\ call.pc = "fetch"
    /\ call' = MRIssue(call)
    /\ UNCHANGED <<retryConfig, bulkVars, listVars>>

\* the server answers the pending fetch
Receive ==
    /\ call.pc = "inflight"
    /\ \E resp \in Responses : call' = MRReceive(call, retryConfig, resp)
    /\ UNCHANGED <<retryConfig, bulkVars, listVars>>

\* the pending sleep of the call ends
Wake ==
    /\ call.pc = "sleep"
    /\ call' = MRWake(call, retryConfig)
    /\ UNCHANGED <<retryConfig, bulkVars, listVars>>

NextRequest == Fetch \/ Receive \/ Wake

SpecRequest == InitRequest /\ [][NextRequest]_vars

(***************************************************************************)
(* Claims about makeRequest, checked under SpecRequest.                    *)
(***************************************************************************)
Last(q) == q[Len(q)]

\* every response the call has received so far is a 429
AllRateLimited(c) == \A i \in 1..Len(c.seen) : c.seen[i].status = 429

\* C1: when every attempt receives 429, exactly maxRetries+1 requests are
\* issued: the call is still running while fewer have been answered, it has
\* failed with the rate-limit-exceeded error once maxRetries+1 have been, and
\* a call that has ended takes no further step (issues no request).
C1_ExhaustedAfterMaxRetriesPlusOne ==
    /\ AllRateLimited(call) =>
          /\ call.requests <= retryConfig.maxRetries + 1
          /\ Len(call.seen) <= retryConfig.maxRetries => ~MRSettled(call)
          /\ Len(call.seen) = retryConfig.maxRetries + 1 =>
                /\ call.pc = "thrown"
                /\ call.result.kind = "thrown"
                /\ call.result.error.kind = "RateLimitExceeded"
                /\ call.requests = retryConfig.maxRetries + 1
    /\ MRSettled(call) => ~ENABLED NextRequest

C1_Witness ==
    /\ retryConfig.maxRetries = 2
    /\ AllRateLimited(call)
    /\ call.pc = "thrown"
    /\ call.requests = 3

\* C2: every wait performed after a 429, and the wait in progress, is at
\* most maxDelayMs.
C2_WaitAtMostMaxDelay ==
    /\ \A i \in 1..Len(call.waits) : call.waits[i] <= retryConfig.maxDelayMs
    /\ call.pc = "sleep" => SleepDuration(call.sleepMs) <= retryConfig.maxDelayMs

\* a wait of exactly maxDelayMs after a 429 whose Retry-After asked for more,
\* and a wait after a 429 without the header
C2_Witness ==
    /\ Len(call.waits) >= 2
    /\ call.seen[1].retryAfter = Header(<<"1", "2", "0">>)
    /\ call.waits[1] = retryConfig.maxDelayMs
    /\ call.seen[2].retryAfter = NoHeader

\* the Retry-After header of a response names a number of seconds
HasSeconds(resp) ==
    /\ resp.retryAfter.present
    /\ resp.retryAfter.text # <<>>
    /\ ~ParseInt(resp.retryAfter.text).nan

Seconds(resp) == ParseInt(resp.retryAfter.text).v

\* min(baseDelayMs * 2^attempt, maxDelayMs), on integers
BackoffValue(attempt) ==
    IF retryConfig.baseDelayMs * Pow2(attempt) <= retryConfig.maxDelayMs
    THEN retryConfig.baseDelayMs * Pow2(attempt)
    ELSE retryConfig.maxDelayMs

\* the i-th wait follows the i-th response, received at attempt i-1
WaitAfter(i) ==
    IF i <= Len(call.waits) THEN call.waits[i] ELSE SleepDuration(call.sleepMs)

Waited(i) == i <= Len(call.waits) \/ (i = Len(call.seen) /\ call.pc = "sleep")

\* C3 as stated: after a 429 carrying Retry-After = s with s*1000 above the
\* backoff value, the wait before the next attempt is at least s*1000 ms.
C3_WaitAtLeastRetryAfter ==
    \A i \in 1..Len(call.seen) :
        (/\ Waited(i)
         /\ HasSeconds(call.seen[i])
         /\ Seconds(call.seen[i]) * 1000 > BackoffValue(i - 1))
        => WaitAfter(i) >= Seconds(call.seen[i]) * 1000

\* C3 amended: under the same condition the wait is at least s*1000 ms
\* clamped to maxDelayMs, that is min(s*1000, maxDelayMs).
C3_WaitAtLeastClampedRetryAfter ==
    \A i \in 1..Len(call.seen) :
        (/\ Waited(i)
         /\ HasSeconds(call.seen[i])
         /\ Seconds(call.seen[i]) * 1000 > BackoffValue(i - 1))
        => WaitAfter(i) >= (IF Seconds(call.seen[i]) * 1000 <= retryConfig.maxDelayMs
                            THEN Seconds(call.seen[i]) * 1000
                            ELSE retryConfig.maxDelayMs)

\* a wait of 1000 ms after Retry-After: 1 with a backoff value of 500 ms
C3_Witness ==
    /\ Len(call.waits) >= 1
    /\ call.seen[1].retryAfter = Header(<<"1">>)
    /\ retryConfig.baseDelayMs = 500
    /\ call.waits[1] = 1000

\* C4: a non-2xx response other than 429, on whichever attempt, ends the call
\* at once with the API error carrying that response's status, status text
\* and body: no wait follows it and the call takes no further step.
C4_ApiErrorFailsImmediately ==
    (/\ Len(call.seen) >= 1
     /\ ~Ok(Last(call.seen))
     /\ Last(call.seen).status # 429)
    => /\ call.pc = "thrown"
       /\ call.result.kind = "thrown"
       /\ call.result.error.kind = "ApiError"
       /\ call.result.error.status = Last(call.seen).status
       /\ call.result.error.statusText = Last(call.seen).statusText
       /\ call.result.error.body = Last(call.seen).body
       /\ call.requests = Len(call.seen)
       /\ Len(call.waits) = Len(call.seen) - 1
       /\ ~ENABLED NextRequest

\* an API error on the third attempt, after two 429 retries
C4_Witness ==
    /\ Len(call.seen) = 3
    /\ Last(call.seen).status = 500
    /\ call.pc = "thrown"
    /\ Len(call.waits) = 2

\* C17: when the first k responses of a call are 429 and the next is a 2xx
\* (0 <= k <= maxRetries), the call has returned what that response carries
\* (its body, nothing for a 204) after exactly k+1 requests, k waits and k
\* warnings; a warning is emitted before each wait, and while the call waits
\* it has no request outstanding and issues none.
C17_RetriesThenSuccess ==
    /\ LET n == Len(call.seen)
       IN  (/\ n >= 1
            /\ \A i \in 1..(n - 1) : call.seen[i].status = 429
            /\ Ok(call.seen[n]))
           => /\ n - 1 <= retryConfig.maxRetries
              /\ call.pc = "returned"
              /\ call.result.kind = (IF call.seen[n].status = 204 THEN "void"
                                     ELSE "payload")
              /\ call.result.payload = (IF call.seen[n].status = 204 THEN ""
                                        ELSE call.seen[n].body)
              /\ call.requests = n
              /\ Len(call.waits) = n - 1
              /\ call.warnings = n - 1
              /\ ~ENABLED NextRequest
    /\ call.pc = "sleep" =>
          /\ call.warnings = Len(call.waits) + 1
          /\ call.requests = Len(call.seen)
          /\ ~ENABLED Fetch
    /\ call.pc \in {"fetch", "inflight"} => call.warnings = Len(call.waits)

\* three 429 responses and then a 200 with maxRetries = 3: returned after 4
\* requests, 3 waits and 3 warnings
C17_Witness ==
    /\ retryConfig.maxRetries = 3
    /\ call.pc = "returned"
    /\ Len(call.seen) = 4
    /\ call.seen[4].status = 200
    /\ call.result.payload = "payload"
    /\ call.requests = 4
    /\ Len(call.waits) = 3
    /\ call.warnings = 3

\* C19: the rate-limit-exceeded error is thrown after maxRetries+1 responses
\* and carries the Retry-After seconds of the last of them, 60 when that
\* response has no Retry-After header; and the wait after a 429 without the
\* header is max(min(60000, maxDelayMs), min(baseDelayMs * 2^attempt,
\* maxDelayMs)).
C19_ErrorCarriesFinalRetryAfter ==
    /\ (call.pc = "thrown" /\ call.result.error.kind = "RateLimitExceeded") =>
          LET final == Last(call.seen)
          IN  /\ Len(call.seen) = retryConfig.maxRetries + 1
              /\ final.status = 429
              /\ HasSeconds(final) =>
                    call.result.error.retryAfterSeconds = Num(Seconds(final))
              /\ final.retryAfter = NoHeader =>
                    call.result.error.retryAfterSeconds = Num(60)
    /\ \A i \in 1..Len(call.seen) :
          (Waited(i) /\ call.seen[i].retryAfter = NoHeader) =>
              LET fromHeader == IF 60000 <= retryConfig.maxDelayMs THEN 60000
                                ELSE retryConfig.maxDelayMs
              IN  WaitAfter(i) = (IF fromHeader >= BackoffValue(i - 1) THEN fromHeader
                                  ELSE BackoffValue(i - 1))

\* maxRetries = 2 and maxDelayMs = 120000: a 429 without the header is
\* followed by a wait of 60000 ms, and the error carries the 120 seconds of
\* the third response, not the 1 second of the first
C19_Witness ==
    /\ retryConfig.maxRetries = 2
    /\ retryConfig.maxDelayMs = 120000
    /\ call.pc = "thrown"
    /\ Len(call.seen) = 3
    /\ call.seen[1].retryAfter = Header(<<"1">>)
    /\ call.seen[2].retryAfter = NoHeader
    /\ call.waits[2] = 60000
    /\ call.seen[3].retryAfter = Header(<<"1", "2", "0">>)
    /\ call.result.error.kind = "RateLimitExceeded"
    /\ call.result.error.retryAfterSeconds = Num(120)

(***************************************************************************)
(* handleBulkDelete.  del[j] is the deleteDocument call for ids[j]: its    *)
(* identifier, the number of times deleteDocument was called for it, and   *)
(* the record of its makeRequest call (IdleCall until the batch of j is    *)
(* mapped).                                                                *)
(***************************************************************************)
CONCURRENCY_LIMIT == 5

\* the client of initializeClient(): one retry, so that a 429 is followed by
\* a wait and a second attempt
HandlerRetryConfig == [maxRetries |-> 1, baseDelayMs |-> 1000, maxDelayMs |-> 2000]

\* the bulk delete argument: n distinct identifiers
IdsOfLength(n) == [j \in 1..n |-> 10 * j]

\* responses of DELETE /delete/{id}/
DeleteResponses ==
    {Response(204, "No Content", NoHeader, ""),
     Response(404, "Not Found", NoHeader, "no such document"),
     Response(429, "Too Many Requests", Header(<<"1">>), "throttled")}

\* faulty variant: the whole rest of ids is mapped at once, no slice
BatchPositions_Unbounded(i) == (i + 1)..Len(ids)

\* the positions of ids.slice(i, i + CONCURRENCY_LIMIT)
BatchPositions(i) == (i + 1)..Min(i + CONCURRENCY_LIMIT, Len(ids))

\* the promise of async (id) => { await client.deleteDocument(id); return id }
\* once makeRequest has returned or thrown: fulfilled or rejected with the
\* error, the locals of the call are gone
DeletePromise(c) ==
    IF MRSettled(c) THEN [IdleCall EXCEPT !.pc = c.pc, !.result = c.result] ELSE c

\* client.deleteDocument(id) up to its first await: makeRequest runs to its
\* first fetch
DeleteStart(cfg) ==
    LET c == MRStart(cfg) IN IF c.pc = "fetch" THEN MRIssue(c) ELSE DeletePromise(c)

\* the response of a deletion's pending fetch arrives
DeleteAnswered(c, cfg, resp) == DeletePromise(MRReceive(c, cfg, resp))

\* the sleep of a deletion ends and makeRequest runs to its next fetch
DeleteResume(c, cfg) ==
    LET w == MRWake(c, cfg) IN IF w.pc = "fetch" THEN MRIssue(w) ELSE DeletePromise(w)

\* batch.map(async (id) => ...): every deletion of the batch is started
StartBatch(d, i) ==
    [j \in 1..Len(ids) |->
        IF j \in BatchPositions(i)
        THEN [d[j] EXCEPT !.call = DeleteStart(retryConfig), !.starts = @ + 1]
        ELSE d[j]]

\* the text 'Unknown error'
UnknownError ==
    [kind |-> "Unknown error", status |-> 0, statusText |-> "", body |-> "",
     retries |-> 0, retryAfterSeconds |-> Num(0)]

\* result.reason?.message || 'Unknown error': the message of an error is
\* modelled by the fields it is built from
ErrorMessage(err) == IF err.kind = "none" THEN UnknownError ELSE err

\* faulty variant: the status of the settled promise is not looked at
ResultRecord_IgnoresRejection(d, j) ==
    [id |-> ids[j], success |-> TRUE, error |-> NoError]

\* the record pushed for position j once its promise has settled
ResultRecord(d, j) ==
    IF d[j].call.pc = "returned"
    THEN [id |-> ids[j], success |-> TRUE, error |-> NoError]
    ELSE [id |-> ids[j], success |-> FALSE,
          error |-> ErrorMessage(d[j].call.result.error)]

\* the records of the batch at i, in batch order
RECURSIVE BatchRecords(_, _, _)
BatchRecords(d, j, last) ==
    IF j > last THEN <<>>
    ELSE <<ResultRecord(d, j)>> \o BatchRecords(d, j + 1, last)

\* results.filter(r => !r.success), as the id and error listed in the text
RECURSIVE FailedOf(_)
FailedOf(rs) ==
    IF rs = <<>> THEN <<>>
    ELSE (IF Head(rs).success THEN <<>>
          ELSE <<[id |-> Head(rs).id, error |-> Head(rs).error]>>)
         \o FailedOf(Tail(rs))

\* results.filter(r => r.success).length
RECURSIVE SuccessfulOf(_)
SuccessfulOf(rs) ==
    IF rs = <<>> THEN 0
    ELSE (IF Head(rs).success THEN 1 ELSE 0) + SuccessfulOf(Tail(rs))

\* the text returned: the counts and the failed identifiers with messages
Summary(rs) ==
    [kind |-> "returned", successful |-> SuccessfulOf(rs), total |-> Len(ids),
     failed |-> FailedOf(rs)]

\* the loop test i < ids.length with results rs: the next batch is mapped,
\* or the loop ends and the handler returns
BulkLoop(i, d, rs) ==
    /\ bi' = i
    /\ results' = rs
    /\ IF i < Len(ids)
       THEN /\ del' = StartBatch(d, i)
            /\ bpc' = "running"
            /\ bulkReturn' = bulkReturn
       ELSE /\ del' = d
            /\ bpc' = "done"
            /\ bulkReturn' = Summary(rs)

InitBulk ==
    /\ retryConfig = HandlerRetryConfig
    /\ call = IdleCall
    /\ \E n \in 0..MaxIds : ids = IdsOfLength(n)
    /\ bpc = "idle"
    /\ bi = 0
    /\ del = [j \in 1..Len(ids) |-> [id |-> ids[j], starts |-> 0, call |-> IdleCall]]
    /\ results = <<>>
    /\ bulkReturn = NoBulkReturn
    /\ ListUnused

\* the handler is called: results = [], i = 0, first loop test
HandleBulkDelete ==
    /\ bpc = "idle"
    /\ BulkLoop(0, del, <<>>)
    /\ UNCHANGED <<requestVars, ids, listVars>>

\* the server answers the pending fetch of the deletion at position j
DeleteReceive ==
    /\ bpc = "running"
    /\ \E j \in 1..Len(ids) :
          /\ del[j].call.pc = "inflight"
          /\ \E resp \in DeleteResponses :
                del' = [del EXCEPT ![j].call = DeleteAnswered(@, retryConfig, resp)]
    /\ UNCHANGED <<requestVars, ids, bpc, bi, results, bulkReturn, listVars>>

\* the retry wait of the deletion at position j ends
DeleteWake ==
    /\ bpc = "running"
    /\ \E j \in 1..Len(ids) :
          /\ del[j].call.pc = "sleep"
          /\ del' = [del EXCEPT ![j].call = DeleteResume(@, retryConfig)]
    /\ UNCHANGED <<requestVars, ids, bpc, bi, results, bulkReturn, listVars>>

\* faulty variant: the handler goes on as soon as one promise of the batch settles
BatchSettled_FirstSettled ==
    /\ bpc = "running"
    /\ \E j \in BatchPositions(bi) : MRSettled(del[j].call)
    /\ BulkLoop(bi + CONCURRENCY_LIMIT, del,
                results \o BatchRecords(del, bi + 1,
                                        Min(bi + CONCURRENCY_LIMIT, Len(ids))))
    /\ UNCHANGED <<requestVars, ids, listVars>>

\* Promise.allSettled of the batch resolves: the records are pushed in batch
\* order, i += CONCURRENCY_LIMIT, and the loop goes on
BatchSettled ==
    /\ bpc = "running"
    /\ \A j \in BatchPositions(bi) : MRSettled(del[j].call)
    /\ BulkLoop(bi + CONCURRENCY_LIMIT, del,
                results \o BatchRecords(del, bi + 1,
                                        Min(bi + CONCURRENCY_LIMIT, Len(ids))))
    /\ UNCHANGED <<requestVars, ids, listVars>>

NextBulk == HandleBulkDelete \/ DeleteReceive \/ DeleteWake \/ BatchSettled

SpecBulk == InitBulk /\ [][NextBulk]_vars

(***************************************************************************)
(* Claims about handleBulkDelete, checked under SpecBulk.                  *)
(***************************************************************************)
Started(j) == del[j].call.pc # "idle"

Settled(j) == MRSettled(del[j].call)

\* the deletions started and not yet settled
InFlight == {j \in 1..Len(ids) : Started(j) /\ ~Settled(j)}

\* the group of position j when ids is cut into consecutive groups of 5
Group(j) == (j - 1) \div 5

\* C8: at most 5 delete operations are in flight in every reachable state.
C8_AtMostFiveInFlight == Cardinality(InFlight) <= 5

\* five deletions in flight in the first batch of six identifiers, one of
\* them in a 429 retry wait
C8_Witness ==
    /\ Len(ids) = 6
    /\ Cardinality(InFlight) = 5
    /\ \E j \in InFlight : del[j].call.pc = "sleep"

\* C9: the identifiers are processed in consecutive groups of at most 5 in
\* input order, ceil(n/5) groups in all, and no deletion of a later group is
\* started before every deletion of the earlier groups has settled.
C9_BatchesStrictlySequential ==
    /\ \A j, k \in 1..Len(ids) : (Group(j) < Group(k) /\ Started(k)) => Settled(j)
    /\ \A j, k \in 1..Len(ids) : (Group(j) = Group(k) /\ Started(k)) => Started(j)
    /\ bpc = "running" => /\ bi = 5 * Group(bi + 1)
                          /\ bi < Len(ids)
                          /\ \A j \in 1..Len(ids) : Started(j) <=> Group(j) <= Group(bi + 1)
    /\ bpc = "done" => /\ bi = 5 * ((Len(ids) + 4) \div 5)
                       /\ \A j \in 1..Len(ids) : Settled(j)

\* the second group is running after a first group in which one deletion
\* failed and one succeeded
C9_Witness ==
    /\ Len(ids) = 6
    /\ bpc = "running"
    /\ bi = 5
    /\ Started(6)
    /\ del[1].call.pc = "thrown"
    /\ del[2].call.pc = "returned"

\* C10: the runner goes on until it returns, and it returns normally with one
\* result record per identifier, in input order, whose success flag is that
\* identifier's own delete outcome and whose error is that deletion's error;
\* every identifier was deleted exactly once; succeeded + failed = n.
C10_NeverAbortsEarly ==
    /\ bpc # "done" => ENABLED NextBulk
    /\ \A j \in 1..Len(ids) : del[j].starts <= 1
    /\ bpc = "done" =>
          /\ bulkReturn.kind = "returned"
          /\ Len(results) = Len(ids)
          /\ \A j \in 1..Len(ids) :
                /\ del[j].starts = 1
                /\ Settled(j)
                /\ results[j].id = ids[j]
                /\ results[j].success = (del[j].call.pc = "returned")
                /\ ~results[j].success =>
                      /\ results[j].error = del[j].call.result.error
                      /\ \E f \in 1..Len(bulkReturn.failed) :
                            bulkReturn.failed[f] =
                                [id |-> ids[j], error |-> del[j].call.result.error]
          /\ bulkReturn.total = Len(ids)
          /\ bulkReturn.successful + Len(bulkReturn.failed) = Len(ids)
          /\ bulkReturn.successful =
                Cardinality({j \in 1..Len(ids) : del[j].call.pc = "returned"})

\* six identifiers, the 2nd failing with an API error and the 6th with rate
\* limit exhaustion: the handler returned 4 successes and these 2 failures
C10_Witness ==
    /\ bpc = "done"
    /\ Len(ids) = 6
    /\ bulkReturn.successful = 4
    /\ Len(bulkReturn.failed) = 2
    /\ bulkReturn.failed[1].id = ids[2]
    /\ bulkReturn.failed[1].error.kind = "ApiError"
    /\ bulkReturn.failed[2].id = ids[6]
    /\ bulkReturn.failed[2].error.kind = "RateLimitExceeded"

(***************************************************************************)
(* handleListDocuments and searchDocumentsByTopic.                         *)
(***************************************************************************)
\* the texts produced by the content converter and of an empty content
TextOfUrl(url) == [from |-> "url", src |-> url]

TextOfHtml(html) == [from |-> "html", src |-> html]

NoText == [from |-> "none", src |-> ""]

\* apiParams: params without addedAfter
ApiParams(p) == [p EXCEPT !.addedAfter = Undefined]

\* fetchParams: apiParams, with pageCursor when nextPageCursor is truthy
FetchParams(p, cursor) ==
    IF TruthyNum(cursor) THEN [ApiParams(p) EXCEPT !.pageCursor = cursor]
    ELSE ApiParams(p)

\* whether the document passes the addedAfter filter
SavedAfter(doc, addedAfterDate) ==
    /\ TruthyStr(doc.saved_at)
    /\ DateGreater(NewDate(doc.saved_at[1]), addedAfterDate)

\* docs.filter(doc => doc.saved_at && new Date(doc.saved_at) > addedAfterDate)
RECURSIVE FilterSavedAfter(_, _)
FilterSavedAfter(docs, addedAfterDate) ==
    IF docs = <<>> THEN <<>>
    ELSE (IF SavedAfter(Head(docs), addedAfterDate) THEN <<Head(docs)>> ELSE <<>>)
         \o FilterSavedAfter(Tail(docs), addedAfterDate)

\* faulty variant: url is preferred to source_url
UrlToConvert_UrlFirst(doc) == IF TruthyStr(doc.url) THEN doc.url ELSE doc.source_url

\* doc.source_url || doc.url
UrlToConvert(doc) == IF TruthyStr(doc.source_url) THEN doc.source_url ELSE doc.url

\* !doc.category || doc.category === 'article' || doc.category === 'pdf'
ShouldUseJina(doc) ==
    \/ ~TruthyStr(doc.category)
    \/ doc.category = Some("article")
    \/ doc.category = Some("pdf")

\* the async callback of one document up to its first await: a pending
\* convertUrlToText, or the content already known
HydrateStart(doc, shouldIncludeContent) ==
    IF ~shouldIncludeContent THEN [st |-> "done", content |-> NoText]
    ELSE IF TruthyStr(doc.html_content) /\ ~ShouldUseJina(doc)
         THEN [st |-> "done", content |-> TextOfHtml(doc.html_content[1])]
    ELSE IF TruthyStr(UrlToConvert(doc))
         THEN [st |-> "pending", content |-> NoText]
    ELSE [st |-> "done", content |-> NoText]

\* the result object of one document
Projected(doc, content, p) ==
    [id |-> doc.id, url |-> doc.url, category |-> doc.category,
     source_url |-> doc.source_url, saved_at |-> doc.saved_at, title |-> doc.title,
     content |-> IF p.withFullContent = Some(TRUE) THEN Some(content) ELSE Undefined,
     html_content |-> IF TruthyBool(p.withHtmlContent) /\ TruthyStr(doc.html_content)
                      THEN doc.html_content ELSE Undefined]

\* the disclosure pushed when clientSideFiltered
FilterMessage ==
    [type |-> "info", about |-> "client-side filtering", found |-> 0, remaining |-> 0]

\* faulty variant: the disclosure is put in front of the other messages
AllMessages_InFront(resp, p) ==
    IF TruthyStr(p.addedAfter) THEN <<FilterMessage>> \o resp.messages
    ELSE resp.messages

\* response.messages || [], with the disclosure pushed when addedAfter is set
AllMessages(resp, p) ==
    IF TruthyStr(p.addedAfter) THEN Append(resp.messages, FilterMessage)
    ELSE resp.messages

\* the text returned by handleListDocuments: count, nextPageCursor, the
\* documents, and the messages
ListOutput(resp, h, p) ==
    [kind |-> "returned", count |-> resp.data.count,
     nextPageCursor |-> resp.data.nextPageCursor,
     documents |-> [k \in 1..Len(resp.data.results) |->
                       Projected(resp.data.results[k], h[k].content, p)],
     messages |-> AllMessages(resp, p), error |-> "none"]

\* the call rejects with the error of the request or conversion that failed
ThrownOutput(err) == [NoOutput EXCEPT !.kind = "thrown", !.error = err]

\* term.replace(...) as a case-insensitive pattern tested on the lower-cased
\* title: whether the title contains the term, whatever the case
TermMatches(term, title) ==
    CASE term = "rust" -> title = "Rust notes"
      [] term = "AI" -> title = "AI weekly"
      [] term = "notes" -> title = "Rust notes"
      [] term = "" -> TRUE
      [] OTHER -> FALSE

\* regexPatterns.some(pattern => pattern.test(searchableText))
Matching(doc, terms) ==
    \E t \in 1..Len(terms) :
        TermMatches(terms[t], IF TruthyStr(doc.title) THEN doc.title[1] ELSE "")

RECURSIVE FilterMatching(_, _)
FilterMatching(docs, terms) ==
    IF docs = <<>> THEN <<>>
    ELSE (IF Matching(Head(docs), terms) THEN <<Head(docs)>> ELSE <<>>)
         \o FilterMatching(Tail(docs), terms)

\* faulty variant: the results of the page are put in front of the accumulated ones
Accumulate_InFront(all, pageResults) == pageResults \o all

\* allDocuments.push(...results)
Accumulate(all, pageResults) == all \o pageResults

\* client.listDocuments(p) is called, after n calls that have returned: its
\* first request goes out
CallListDocuments(p, n) ==
    /\ lst' = LDStart(p)
    /\ requests' = Append(requests, [call |-> n + 1,
                                     purpose |-> LDStart(p).pc,
                                     query |-> LDStart(p).query])

\* the handler has its response: the hydration of every document is started
ThenHydrate(resp, p) ==
    /\ response' = resp
    /\ hyd' = [k \in 1..Len(resp.data.results) |->
                  HydrateStart(resp.data.results[k], p.withFullContent = Some(TRUE))]
    /\ hpc' = "hydrate"
    /\ lst' = IdleList
    /\ requests' = requests

\* the page the remote answers the awaited request of lst with
Answer == ServerList(remote, ServerPageSize, lst.query)

AwaitingData == lst.pc \in {"limited", "full"}

(***************************************************************************)
(* SpecList: one handleListDocuments or searchDocumentsByTopic call        *)
(* against a remote with any of Remotes as its documents.                  *)
(***************************************************************************)
SavedAts ==
    {Undefined, Some("2024-01-01"), Some("2024-01-02T00:00:00.000Z"),
     Some("2024-01-03"), Some("yesterday")}

\* saved_at by position for the remotes of more than MaxVaried documents
SavedAtPattern ==
    <<Some("2024-01-03"), Some("2024-01-01"), Some("2024-01-02T00:00:00.000Z"),
      Some("2024-01-03"), Undefined, Some("yesterday")>>

Remotes ==
    UNION {{[j \in 1..n |-> Document(100 + j, f[j])] : f \in [1..n -> SavedAts]} :
           n \in 0..MaxVaried}
    \cup {[j \in 1..n |->
              Document(100 + j, SavedAtPattern[((j - 1) % Len(SavedAtPattern)) + 1])] :
          n \in (MaxVaried + 1)..MaxCount}

ListArgs ==
    [withFullContent : {Undefined, Some(TRUE)},
     withHtmlContent : {Undefined, Some(TRUE)},
     addedAfter : {Undefined, Some("2024-01-01"), Some("2024-01-02"), Some("soon")},
     pageCursor : {Undefined, Some(2)},
     limit : {Undefined, Some(2), Some(7)}]

SearchTermsSets == {<<>>, <<"rust">>, <<"go", "AI">>}

InitList ==
    /\ retryConfig = HandlerRetryConfig
    /\ call = IdleCall
    /\ BulkUnused
    /\ remote \in Remotes
    /\ hpc = "idle"
    /\ ListIdle

\* handleListDocuments(a) up to its first await
HandleListDocuments ==
    /\ hpc = "idle"
    /\ \E a \in ListArgs :
          LET p == IF a.withFullContent = Some(TRUE)
                   THEN [a EXCEPT !.withHtmlContent = Some(TRUE)] ELSE a
          IN  /\ args' = a
              /\ params' = p
              /\ hpc' = IF ~TruthyStr(p.addedAfter) THEN "plain"
                        ELSE IF ~TruthyNum(p.pageCursor) /\ ~TruthyNum(p.limit)
                             THEN "loop" ELSE "single"
              /\ path' = hpc'
              /\ CallListDocuments(IF TruthyStr(p.addedAfter)
                                   THEN FetchParams(p, Undefined) ELSE p, 0)
    /\ allDocuments' = <<>>
    /\ nextPageCursor' = Undefined
    /\ UNCHANGED <<requestVars, bulkVars, remote, searchTerms, response, calls,
                   hyd, output>>

\* listDocuments: the count response arrives and the next request goes out
CountAnswered ==
    /\ hpc \in {"loop", "single", "plain", "search"}
    /\ lst.pc = "count"
    /\ lst' = LDCounted(lst, Answer)
    /\ requests' = Append(requests, [call |-> Len(calls) + 1, purpose |-> lst'.pc,
                                     query |-> lst'.query])
    /\ UNCHANGED <<requestVars, bulkVars, remote, args, params, searchTerms, hpc,
                   allDocuments, nextPageCursor, response, calls, path, hyd, output>>

\* the addedAfter loop: a page is returned; the loop goes on with the next
\* cursor, or ends with the filtered documents as the response
LoopPage ==
    /\ hpc = "loop"
    /\ AwaitingData
    /\ LET pageResponse == LDReturn(lst, Answer)
           all == Accumulate(allDocuments, pageResponse.data.results)
           filtered == FilterSavedAfter(all, NewDate(params.addedAfter[1]))
       IN  /\ allDocuments' = all
           /\ nextPageCursor' = pageResponse.data.nextPageCursor
           /\ calls' = Append(calls, [params |-> lst.params, response |-> pageResponse])
           /\ IF TruthyNum(pageResponse.data.nextPageCursor)
              THEN /\ CallListDocuments(FetchParams(params,
                                                    pageResponse.data.nextPageCursor),
                                        Len(calls) + 1)
                   /\ UNCHANGED <<hpc, response, hyd>>
              ELSE ThenHydrate([data |-> [count |-> Len(filtered),
                                          nextPageCursor |-> Undefined,
                                          results |-> filtered],
                                messages |-> <<>>], params)
    /\ UNCHANGED <<requestVars, bulkVars, remote, args, params, searchTerms, path,
                   output>>

\* faulty variant: the count of the page is left as the remote gave it
FilteredInPlace_CountKept(resp, addedAfterDate) ==
    [resp EXCEPT !.data.results = FilterSavedAfter(resp.data.results, addedAfterDate)]

\* response.data.results = filteredDocuments; response.data.count =
\* filteredDocuments.length
FilteredInPlace(resp, addedAfterDate) ==
    LET filtered == FilterSavedAfter(resp.data.results, addedAfterDate)
    IN  [resp EXCEPT !.data.results = filtered, !.data.count = Len(filtered)]

\* addedAfter with a cursor or a limit: the one page is filtered in place
SinglePage ==
    /\ hpc = "single"
    /\ AwaitingData
    /\ LET resp == LDReturn(lst, Answer)
       IN  /\ calls' = Append(calls, [params |-> lst.params, response |-> resp])
           /\ ThenHydrate(FilteredInPlace(resp, NewDate(params.addedAfter[1])),
                          params)
    /\ UNCHANGED <<requestVars, bulkVars, remote, args, params, searchTerms,
                   allDocuments, nextPageCursor, path, output>>

\* no addedAfter: the response of listDocuments(params) is the response
PlainPage ==
    /\ hpc = "plain"
    /\ AwaitingData
    /\ calls' = Append(calls, [params |-> lst.params,
                                response |-> LDReturn(lst, Answer)])
    /\ ThenHydrate(LDReturn(lst, Answer), params)
    /\ UNCHANGED <<requestVars, bulkVars, remote, args, params, searchTerms,
                   allDocuments, nextPageCursor, path, output>>

\* a pending convertUrlToText resolves with the text of the URL
ConvertResolves ==
    /\ hpc = "hydrate"
    /\ \E k \in 1..Len(hyd) :
          /\ hyd[k].st = "pending"
          /\ hyd' = [hyd EXCEPT ![k] =
                        [st |-> "done",
                         content |-> TextOfUrl(UrlToConvert(response.data.results[k])[1])]]
    /\ UNCHANGED <<requestVars, bulkVars, remote, args, params, searchTerms, hpc,
                   allDocuments, nextPageCursor, response, lst, requests, calls,
                   path, output>>

\* a pending convertUrlToText rejects: Promise.all rejects, the handler throws
\* and the results of the other callbacks are dropped
ConvertRejects ==
    /\ hpc = "hydrate"
    /\ \E k \in 1..Len(hyd) : hyd[k].st = "pending"
    /\ hpc' = "thrown"
    /\ hyd' = <<>>
    /\ output' = ThrownOutput("conversion failed")
    /\ UNCHANGED <<requestVars, bulkVars, remote, args, params, searchTerms,
                   allDocuments, nextPageCursor, response, lst, requests, calls,
                   path>>

\* Promise.all resolves: the text with the messages is returned
Respond ==
    /\ hpc = "hydrate"
    /\ \A k \in 1..Len(hyd) : hyd[k].st = "done"
    /\ hpc' = "done"
    /\ output' = ListOutput(response, hyd, params)
    /\ UNCHANGED <<requestVars, bulkVars, remote, args, params, searchTerms,
                   allDocuments, nextPageCursor, response, lst, requests, calls,
                   path, hyd>>

\* the awaited request of listDocuments fails: makeRequest throws, and so do
\* listDocuments and its caller
RequestFails ==
    /\ hpc \in {"loop", "single", "plain", "search"}
    /\ lst.pc \in {"count", "limited", "full"}
    /\ hpc' = "thrown"
    /\ lst' = IdleList
    /\ output' = ThrownOutput("request failed")
    /\ UNCHANGED <<requestVars, bulkVars, remote, args, params, searchTerms,
                   allDocuments, nextPageCursor, response, requests, calls, path,
                   hyd>>

\* searchDocumentsByTopic(terms) up to its first await
SearchDocumentsByTopic ==
    /\ hpc = "idle"
    /\ \E terms \in SearchTermsSets : searchTerms' = terms
    /\ hpc' = "search"
    /\ params' = [NoParams EXCEPT !.withFullContent = Some(FALSE),
                                  !.withHtmlContent = Some(FALSE)]
    /\ CallListDocuments(params', 0)
    /\ allDocuments' = <<>>
    /\ nextPageCursor' = Undefined
    /\ path' = "search"
    /\ UNCHANGED <<requestVars, bulkVars, remote, args, response, calls, hyd, output>>

\* the search loop: a page is returned; the loop goes on with the next
\* cursor, or ends and the matching documents are returned
SearchPage ==
    /\ hpc = "search"
    /\ AwaitingData
    /\ LET resp == LDReturn(lst, Answer)
           all == Accumulate(allDocuments, resp.data.results)
       IN  /\ allDocuments' = all
           /\ nextPageCursor' = resp.data.nextPageCursor
           /\ calls' = Append(calls, [params |-> lst.params, response |-> resp])
           /\ IF TruthyNum(resp.data.nextPageCursor)
              THEN /\ CallListDocuments([params EXCEPT
                                            !.pageCursor = resp.data.nextPageCursor],
                                        Len(calls) + 1)
                   /\ UNCHANGED <<hpc, output>>
              ELSE /\ hpc' = "done"
                   /\ lst' = IdleList
                   /\ requests' = requests
                   /\ output' = [NoOutput EXCEPT
                                    !.kind = "returned",
                                    !.documents = FilterMatching(all, searchTerms)]
    /\ UNCHANGED <<requestVars, bulkVars, remote, args, params, searchTerms, path,
                   response, hyd>>

NextList ==
    \/ HandleListDocuments
    \/ CountAnswered
    \/ LoopPage
    \/ SinglePage
    \/ PlainPage
    \/ ConvertResolves
    \/ ConvertRejects
    \/ Respond
    \/ RequestFails
    \/ SearchDocumentsByTopic
    \/ SearchPage

SpecList == InitList /\ [][NextList]_vars

(***************************************************************************)
(* Claims about listing and searching, checked under SpecList.             *)
(***************************************************************************)
Ids(docs) == [k \in 1..Len(docs) |-> docs[k].id]

\* the requests sent by the i-th listDocuments call, in order
RequestsOf(i) == SelectSeq(requests, LAMBDA r : r.call = i)

\* P1.results ++ ... ++ Pn.results of the pages returned to the first n calls
RECURSIVE PagesConcat(_)
PagesConcat(n) ==
    IF n = 0 THEN <<>>
    ELSE PagesConcat(n - 1) \o calls[n].response.data.results

NextCursorOf(i) == calls[i].response.data.nextPageCursor

\* the loop has ended and the handler has gone on
LoopEnded == hpc \in {"hydrate", "done"}

\* C5: in the addedAfter full-fetch loop and in the topic-search loop, the
\* accumulated list is the concatenation, in order, of the pages returned so
\* far; every page is what the remote serves for the one data request of its
\* call, which carries the cursor the previous page returned (none for the
\* first); the loop goes on exactly while the page has a cursor, and once the
\* page without one has arrived no further list request exists.
C5_PaginationAggregation ==
    path \in {"loop", "search"} =>
        /\ allDocuments = PagesConcat(Len(calls))
        /\ \A i \in 1..Len(calls) :
              /\ calls[i].params.pageCursor =
                    (IF i = 1 THEN Undefined ELSE NextCursorOf(i - 1))
              /\ i < Len(calls) => TruthyNum(NextCursorOf(i))
              /\ Cardinality({r \in 1..Len(requests) :
                                 /\ requests[r].call = i
                                 /\ requests[r].purpose # "count"}) = 1
              /\ calls[i].response.data =
                    ServerList(remote, ServerPageSize, Last(RequestsOf(i)).query)
              /\ Last(RequestsOf(i)).query.pageCursor = calls[i].params.pageCursor
              /\ \A j \in 1..Len(calls) :
                    i # j => calls[i].params.pageCursor # calls[j].params.pageCursor
        /\ hpc \in {"loop", "search"} =>
              /\ lst.pc # "idle"
              /\ lst.params.pageCursor =
                    (IF calls = <<>> THEN Undefined ELSE NextCursorOf(Len(calls)))
              /\ \A r \in 1..Len(requests) : requests[r].call <= Len(calls) + 1
        /\ LoopEnded =>
              /\ calls # <<>>
              /\ ~TruthyNum(NextCursorOf(Len(calls)))
              /\ lst.pc = "idle"
              /\ \A r \in 1..Len(requests) : requests[r].call <= Len(calls)

\* the addedAfter loop ended after four pages, with the documents of all four
C5_Witness ==
    /\ path = "loop"
    /\ LoopEnded
    /\ Len(calls) = 4
    /\ Len(allDocuments) = Len(remote)
    /\ Len(allDocuments) >= 7

\* the identifiers of the first 5 documents after the cursor of p
FirstFive(p) ==
    LET start == IF p.pageCursor = Undefined THEN 0 ELSE p.pageCursor[1]
    IN  [k \in 1..(IF Len(remote) - start >= 5 THEN 5
                   ELSE IF Len(remote) > start THEN Len(remote) - start ELSE 0) |->
            remote[start + k].id]

\* C6: for every listDocuments call that returned, with c the total match
\* count of the remote: when full content is requested the count query goes
\* first, and c <= 5 gives the page of the full query with no message,
\* 6 <= c <= 20 the first 5 documents with one INFO message naming c-5,
\* c > 20 the first 5 documents with one ERROR message; when full content is
\* not requested no count query is sent and no message is attached.
C6_ContentCountGuard ==
    \A i \in 1..Len(calls) :
        LET p == calls[i].params
            resp == calls[i].response
            c == Len(remote)
            rq == RequestsOf(i)
        IN  IF TruthyBool(p.withFullContent)
            THEN /\ rq[1].purpose = "count"
                 /\ c <= 5 =>
                       /\ resp.messages = <<>>
                       /\ resp.data = ServerList(remote, ServerPageSize, p)
                 /\ (c >= 6 /\ c <= 20) =>
                       /\ Len(resp.messages) = 1
                       /\ resp.messages[1].type = "info"
                       /\ resp.messages[1].remaining = c - 5
                       /\ Ids(resp.data.results) = FirstFive(p)
                 /\ c > 20 =>
                       /\ Len(resp.messages) = 1
                       /\ resp.messages[1].type = "error"
                       /\ Ids(resp.data.results) = FirstFive(p)
            ELSE /\ \A r \in 1..Len(rq) : rq[r].purpose # "count"
                 /\ resp.messages = <<>>

\* 21 documents match: the listing returned 5 of them and the ERROR message
C6_Witness ==
    /\ hpc = "done"
    /\ path = "plain"
    /\ Len(remote) = 21
    /\ Len(output.documents) = 5
    /\ Len(output.messages) = 1
    /\ output.messages[1].type = "error"

\* saved_at is a date strictly later than the date, on the strings of the model
StrictlyLater(savedAt, date) ==
    \/ date = "2024-01-01" /\ savedAt \in {Some("2024-01-02T00:00:00.000Z"),
                                           Some("2024-01-03")}
    \/ date = "2024-01-02" /\ savedAt = Some("2024-01-03")

\* C7: a listing with addedAfter and neither cursor nor limit returns exactly
\* the documents of the whole remote set saved strictly later than the date,
\* in the remote's order, with count their number and no nextPageCursor.
C7_AddedAfterFullFetch ==
    (hpc = "done" /\ path = "loop") =>
        LET expected == SelectSeq(remote,
                            LAMBDA d : StrictlyLater(d.saved_at, params.addedAfter[1]))
        IN  /\ Ids(output.documents) = Ids(expected)
            /\ \A k \in 1..Len(output.documents) :
                  output.documents[k].saved_at = expected[k].saved_at
            /\ output.count = Len(output.documents)
            /\ output.nextPageCursor = Undefined
            /\ output.kind = "returned"

\* eight documents on four pages, of which the three saved later are returned
\* and one saved at the date itself and one without saved_at are not
C7_Witness ==
    /\ hpc = "done"
    /\ path = "loop"
    /\ params.addedAfter = Some("2024-01-02")
    /\ Len(remote) = 8
    /\ Len(calls) = 4
    /\ Ids(output.documents) = <<101, 104, 107>>

(***************************************************************************)
(* Claims about hydration and the returned documents, under SpecList.      *)
(***************************************************************************)
\* C11: a failing URL-to-text conversion of one document never aborts the
\* listing call: no call ends by throwing the failure of a conversion.
C11_HydrationFailureIsolated ==
    output.kind = "thrown" => output.error # "conversion failed"

\* C12: a returned document carries html_content only when the arguments of
\* the caller asked for it with withHtmlContent.
C12_HtmlOnlyOnRequest ==
    (hpc = "done" /\ path \in {"loop", "single", "plain"}) =>
        \A k \in 1..Len(output.documents) :
            output.documents[k].html_content # Undefined
                => args.withHtmlContent = Some(TRUE)

\* the documents whose URL-to-text conversion is in flight
Hydrating == {k \in 1..Len(hyd) : hyd[k].st = "pending"}

\* C13: when full content is requested and more than 5 documents match, at
\* most 5 hydration calls of the list call are in flight at once.
C13_AtMostFiveHydrating ==
    (args.withFullContent = Some(TRUE) /\ Len(remote) > 5)
        => Cardinality(Hydrating) <= 5

\* the message is among the messages the call returned
Returned(msg) == \E m \in 1..Len(output.messages) : output.messages[m] = msg

\* C14: every advisory message the content-count guard attached to the
\* response of a listDocuments call is among the messages of the response
\* the list call returns, and a call whose requests and conversions all
\* succeeded returns.
C14_GuardMessagesReturned ==
    /\ (hpc = "done" /\ path \in {"loop", "single", "plain"}) =>
          /\ output.kind = "returned"
          /\ \A i \in 1..Len(calls) :
                \A m \in 1..Len(calls[i].response.messages) :
                    Returned(calls[i].response.messages[m])
    /\ output.kind = "thrown" =>
          output.error \in {"request failed", "conversion failed"}

\* the documents of docs saved strictly later than the date
LaterThan(docs, date) == SelectSeq(docs, LAMBDA d : StrictlyLater(d.saved_at, date))

IsDisclosure(msg) == msg.type = "info" /\ msg.about = "client-side filtering"

HasMarkup(doc) == doc.html_content # Undefined /\ doc.html_content # Some("")

\* the category is empty, "article" or "pdf"
ConvertedCategory(doc) ==
    doc.category \in {Undefined, Some(""), Some("article"), Some("pdf")}

\* source_url, falling back to url; <<>> when neither is available
UrlOf(doc) ==
    IF doc.source_url # Undefined /\ doc.source_url # Some("") THEN doc.source_url
    ELSE IF doc.url # Undefined /\ doc.url # Some("") THEN doc.url
    ELSE <<>>

\* C18: with full content requested, the content of every returned document
\* is the text extracted from its inline markup when it has markup and a
\* category other than empty, "article" and "pdf", and no conversion is
\* called for it; otherwise it is the URL-to-text conversion of source_url,
\* falling back to url, and empty when there is no URL.  Without full content
\* no conversion or extraction is called and no content is returned.
C18_HydrationSource ==
    (hpc \in {"hydrate", "done"} /\ path \in {"loop", "single", "plain"}) =>
        /\ Len(hyd) = Len(response.data.results)
        /\ \A k \in 1..Len(hyd) :
              LET doc == response.data.results[k]
              IN  /\ args.withFullContent # Some(TRUE) =>
                        /\ hyd[k] = [st |-> "done", content |-> [from |-> "none", src |-> ""]]
                        /\ hpc = "done" => output.documents[k].content = Undefined
                  /\ args.withFullContent = Some(TRUE) =>
                        /\ IF HasMarkup(doc) /\ ~ConvertedCategory(doc)
                           THEN /\ hyd[k].st = "done"
                                /\ hyd[k].content =
                                      [from |-> "html", src |-> doc.html_content[1]]
                           ELSE IF UrlOf(doc) # <<>>
                           THEN \/ hyd[k].st = "pending"
                                \/ hyd[k].content = [from |-> "url", src |-> UrlOf(doc)[1]]
                           ELSE /\ hyd[k].st = "done"
                                /\ hyd[k].content = [from |-> "none", src |-> ""]
                        /\ hpc = "done" =>
                              /\ hyd[k].st = "done"
                              /\ output.documents[k].content = Some(hyd[k].content)

\* five documents returned with full content: converted from url, converted
\* from source_url (one without markup, one with markup and no category),
\* and extracted from the markup of an email
C18_Witness ==
    /\ hpc = "done"
    /\ args.withFullContent = Some(TRUE)
    /\ args.pageCursor = Some(2)
    /\ Ids(output.documents) = <<103, 104, 105, 106, 107>>
    /\ output.documents[2].content = Some([from |-> "url", src |-> "https://example.org/a"])
    /\ output.documents[3].content = Some([from |-> "html", src |-> "<p>markup</p>"])
    /\ output.documents[4].content =
          Some([from |-> "url", src |-> "https://source.example/c"])
    /\ output.documents[5].content =
          Some([from |-> "url", src |-> "https://source.example/d"])

(***************************************************************************)
(* Claims about the requests of listDocuments, under SpecList.             *)
(***************************************************************************)
\* C20: a listDocuments call with full content requested sends the count
\* query first: the parameters of the call without the two content flags;
\* when the remote counts more than 5 matches its second query is the
\* parameters of the call with limit 5, whatever limit they had, and else the
\* parameters unchanged; a returned call with full content has sent exactly
\* these two requests, and one without full content exactly one, its
\* parameters unchanged.
C20_CountThenData ==
    \A i \in 1..(Len(calls) + (IF lst.pc = "idle" THEN 0 ELSE 1)) :
        LET p == IF i <= Len(calls) THEN calls[i].params ELSE lst.params
            rq == RequestsOf(i)
            returned == i <= Len(calls)
        IN  /\ Len(rq) >= 1
            /\ IF p.withFullContent = Some(TRUE)
               THEN /\ rq[1].query.withFullContent = Undefined
                    /\ rq[1].query.withHtmlContent = Undefined
                    /\ rq[1].query.pageCursor = p.pageCursor
                    /\ rq[1].query.limit = p.limit
                    /\ rq[1].query.addedAfter = p.addedAfter
                    /\ Len(rq) <= 2
                    /\ returned => Len(rq) = 2
                    /\ Len(rq) = 2 =>
                          /\ rq[2].query.withFullContent = p.withFullContent
                          /\ rq[2].query.withHtmlContent = p.withHtmlContent
                          /\ rq[2].query.pageCursor = p.pageCursor
                          /\ rq[2].query.addedAfter = p.addedAfter
                          /\ rq[2].query.limit =
                                (IF Len(remote) > 5 THEN Some(5) ELSE p.limit)
               ELSE /\ Len(rq) = 1
                    /\ rq[1].query = p

\* a call with full content, a cursor and limit 2 on more than 5 matches:
\* the count query kept limit 2 and the cursor, the data query has limit 5
C20_Witness ==
    /\ Len(calls) = 1
    /\ calls[1].params.limit = Some(2)
    /\ calls[1].params.pageCursor = Some(2)
    /\ Len(remote) > 5
    /\ Len(requests) = 2
    /\ requests[1].query.limit = Some(2)
    /\ requests[1].query.withFullContent = Undefined
    /\ requests[2].query.limit = Some(5)
    /\ requests[2].query.pageCursor = Some(2)
    /\ requests[2].query.withFullContent = Some(TRUE)

====
